---- MODULE Spec2Model ----
(***************************************************************************)
(* Healthcare waiting-list simulation (sample_argparse.py and the          *)
(* Streamlit variant simple_interface_app.py).                             *)
(*                                                                         *)
(* The script is a SimPy program.  The model follows the script line by    *)
(* line and gives the SimPy calls it makes their library semantics:        *)
(*   - the environment keeps a heap of (time, priority, event id, event),  *)
(*     and env.step() pops the least entry, sets env.now to its time and   *)
(*     runs its callbacks;                                                 *)
(*   - env.process(g) schedules an Initialize event, URGENT, at env.now;   *)
(*   - env.timeout(d) schedules a Timeout, NORMAL, at env.now + d and      *)
(*     raises ValueError for d < 0;                                        *)
(*   - Resource.request() appends to put_queue and runs _trigger_put,      *)
(*     which looks at the HEAD of put_queue only and, when                 *)
(*     len(users) < capacity, moves it to users and schedules the request  *)
(*     event (NORMAL, env.now);                                            *)
(*   - leaving the with-block calls Resource.release(): the request is     *)
(*     removed from users at once and a Release event is scheduled         *)
(*     (NORMAL, env.now) whose callback is _trigger_put;                   *)
(*   - a generator that returns schedules its Process event (NORMAL), one  *)
(*     that raises schedules it failed, and env.step() re-raises when the  *)
(*     failed event is popped;                                             *)
(*   - env.run(until=T) raises ValueError when T <= env.now, else          *)
(*     schedules the stop event URGENT at T and steps until it is popped.  *)
(*                                                                         *)
(* Time is counted in ticks of 1/MaxRate week.  The rates of the model     *)
(* divide MaxRate, so every service time is a whole number of ticks and    *)
(* the arithmetic of the model is exact.                                   *)
(***************************************************************************)
EXTENDS Integers, Sequences, FiniteSets, TLC

\* ------------------------------------------------------------------------
\* Bounds of the model
\* ------------------------------------------------------------------------
MaxClinicians == 2
MaxBacklog == 3
\* Weeks whose arrival draw is chosen freely; later draws are TailDraw.
ArrivalWeeks == 2
\* Largest patients_per_clinician_per_week; the tick is 1/MaxRate week.
MaxRate == 2

\* ------------------------------------------------------------------------
\* Program constants
\* ------------------------------------------------------------------------
WeeksPerYear == 52
\* SimPy event priorities: Initialize and the stop event are URGENT,
\* timeouts, requests, releases and process events are NORMAL.
URGENT == 0
NORMAL == 1
\* Python's None in a patient record (every time of the run is >= 0).
None == -1
\* Backlogs of the single-server scenario: the spec's n = 10, n = the
\* number of weeks of a one-year run, and a backlog the run cannot clear.
ScenarioBacklogs == {10, WeeksPerYear, WeeksPerYear + 2}

TicksPerWeek == MaxRate
Rates == {1, MaxRate}

\* random.normalvariate draws, in halves (d stands for d/2).  The normal
\* distribution has every real in its support, so any of them can be drawn
\* whenever sigma = 0.2 * patients is not 0.
DrawValues == {-3, 1, 2, 3}
TailDraw == 0 - 1

VARIABLES
    cfg,            \* the parsed arguments (lines 22-26)
    draws,          \* the seeded random stream: the first ArrivalWeeks draws
    rngpos,         \* number of draws consumed from the stream
    pc,             \* position of the script: setup, running, done, reported, error
    now,            \* env.now, in ticks
    queue,          \* env._queue: the scheduled events
    eid,            \* env._eid: the next event id
    users,          \* nurses_resource.users
    put_queue,      \* nurses_resource.queue (the put queue)
    procs,          \* the patient processes, in spawn order
    all_patients,
    patients_seen,
    waiting_times,
    queue_lengths,
    time_points,
    summary,        \* final_waiting_list, patients_seen_count, avg_wait
    peak            \* history: most patients in the system at once so far

vars == <<cfg, draws, rngpos, pc, now, queue, eid, users, put_queue, procs,
          all_patients, patients_seen, waiting_times, queue_lengths,
          time_points, summary, peak>>

\* ------------------------------------------------------------------------
\* Configurations
\* ------------------------------------------------------------------------
Config(p, c, r, y, b) ==
    [patients |-> p, clinicians |-> c, ppw |-> r, years |-> y, backlog |-> b]

ValidGrid ==
    {Config(p, c, r, 1, b) :
        p \in {0, 1}, c \in 1..MaxClinicians, r \in Rates, b \in 0..MaxBacklog}

ScenarioConfigs == {Config(0, 1, 1, 1, b) : b \in ScenarioBacklogs}

\* argparse accepts any int: one argument out of its domain at a time.
InvalidConfigs ==
    {Config(0 - 1, 1, 1, 1, 1), Config(1, 0, 1, 1, 1), Config(1, 1, 0, 1, 1),
     Config(1, 1, 0 - 1, 1, 1), Config(1, 1, 1, 0, 1), Config(1, 1, 1, 1, 0 - 1),
     Config(1, 1, 0, 1, 0 - 1)}

Configs == ValidGrid \cup ScenarioConfigs \cup InvalidConfigs

\* normalvariate(patients, 0.2 * patients) is exactly patients when patients = 0.
DrawSeqs(c) ==
    IF c.patients = 0
    THEN {[i \in 1..ArrivalWeeks |-> 0]}
    ELSE [1..ArrivalWeeks -> DrawValues]

\* The i-th draw of the stream (i = 1, 2, ...), in halves.
Draw(i) ==
    IF i <= Len(draws) THEN draws[i]
    ELSE IF cfg.patients = 0 THEN 0 ELSE TailDraw

\* math.ceil of d/2.
Ceil(d) == (d + 1) \div 2

Max(a, b) == IF a >= b THEN a ELSE b

\* Lines 70-71 with abs for the clamp.
NumArrivalsAbs(d) == Max(Ceil(d), 0 - Ceil(d))

\* Lines 70-71: num_arrivals = max(0, math.ceil(draw)).
NumArrivals(d) == Max(0, Ceil(d))

\* ------------------------------------------------------------------------
\* The event heap
\* ------------------------------------------------------------------------
Event(t, prio, id, kind, pid) ==
    [time |-> t, prio |-> prio, eid |-> id, kind |-> kind, pid |-> pid]

\* Heap order of the tuples (time, priority, eid, event), without the eid.
EventLessNoTieBreak(a, b) ==
    \/ a.time < b.time
    \/ a.time = b.time /\ a.prio < b.prio

\* Heap order of the tuples (time, priority, eid, event).
EventLess(a, b) ==
    \/ a.time < b.time
    \/ a.time = b.time /\ a.prio < b.prio
    \/ a.time = b.time /\ a.prio = b.prio /\ a.eid < b.eid

\* e is what heappop returns.
IsNext(e) == e \in queue /\ \A o \in queue : ~EventLess(o, e)

\* env.step() pops an event of this kind.
Pops(e, kind) == pc = "running" /\ IsNext(e) /\ e.kind = kind

\* ------------------------------------------------------------------------
\* The resource
\* ------------------------------------------------------------------------
\* Resource._do_put with <= for <.
DoPutOffByOne(us) == Len(us) <= cfg.clinicians

\* Resource._do_put keeping one clinician idle.
DoPutStrict(us) == Len(us) + 1 < cfg.clinicians

\* Resource._do_put: the request is granted when len(users) < capacity.
DoPut(us) == Len(us) < cfg.clinicians

\* _trigger_put taking the newest request.
PutCandidateLast(pq) == pq[Len(pq)]

\* _trigger_put examines put_queue[0].
PutCandidate(pq) == Head(pq)

Without(s, x) == SelectSeq(s, LAMBDA y : y # x)

\* _trigger_put that grants the head request and leaves it in the queue.
TriggerPutKeepsRequest(us, pq) ==
    IF pq # <<>> /\ DoPut(us)
    THEN [users |-> Append(us, PutCandidate(pq)),
          put_queue |-> pq,
          granted |-> PutCandidate(pq)]
    ELSE [users |-> us, put_queue |-> pq, granted |-> 0]

\* BaseResource._trigger_put: the head request is granted or left; the
\* loop ends after the first request because _do_put returns None.
TriggerPut(us, pq) ==
    IF pq # <<>> /\ DoPut(us)
    THEN [users |-> Append(us, PutCandidate(pq)),
          put_queue |-> Without(pq, PutCandidate(pq)),
          granted |-> PutCandidate(pq)]
    ELSE [users |-> us, put_queue |-> pq, granted |-> 0]

\* ------------------------------------------------------------------------
\* Patients
\* ------------------------------------------------------------------------
\* Line 43 without the inversion: service_time = the rate, in ticks.
ServiceTimeAsRate == cfg.ppw

\* Line 43: service_time = 1 / patients_per_clinician_per_week, in ticks.
ServiceTime == TicksPerWeek \div cfg.ppw

\* Lines 44-50.
NewRecord(name, arrival_time) ==
    [name |-> name, arrival_time |-> arrival_time, service_start |-> None,
     wait_time_weeks |-> None, status |-> "waiting"]

\* Line 55 with the operands the wrong way round.
WaitTimeReversed(t, arrival_time) == arrival_time - t

\* Line 55: wait_time = env.now - arrival_time, at env.now = t.
WaitTime(t, arrival_time) == t - arrival_time

\* Lines 58-59 without line 60: the status is left as it was.
SeenRecordKeepsStatus(rec, t) ==
    [rec EXCEPT !.service_start = t,
                !.wait_time_weeks = WaitTime(t, rec.arrival_time)]

\* Lines 58-60, at env.now = t.
SeenRecord(rec, t) ==
    [rec EXCEPT !.service_start = t,
                !.wait_time_weeks = WaitTime(t, rec.arrival_time),
                !.status = "seen"]

\* Patients that have issued their request and not released the resource.
InSystem(ps) ==
    Cardinality({i \in 1..Len(ps) :
                    ps[i].state \in {"AwaitingResource", "AwaitingTimeout"}})

\* env.process(patient(env, name, nurses, arrival_time)) for n patients:
\* the new generator objects, not started.
Spawned(n, kind, week, arrival_time) ==
    [i \in 1..n |->
        [name |-> [kind |-> kind, week |-> week, i |-> i],
         arrival_time |-> arrival_time, state |-> "NotStarted", rec |-> 0]]

\* Their Initialize events at env.now = t: process pid0 + i gets event id
\* id0 + i - 1.
InitEvents(n, pid0, id0, t) ==
    {Event(t, URGENT, id0 + i - 1, "init_patient", pid0 + i) : i \in 1..n}

\* ------------------------------------------------------------------------
\* Summary (lines 106-108)
\* ------------------------------------------------------------------------
RECURSIVE SeqSum(_)
SeqSum(s) == IF s = <<>> THEN 0 ELSE Head(s) + SeqSum(Tail(s))

\* Line 108 without the guard: the denominator is len(waiting_times).
AvgWaitUnguarded(wt) == [num |-> SeqSum(wt), den |-> Len(wt)]

\* Line 108: sum(waiting_times) / len(waiting_times) if waiting_times else 0,
\* as a fraction of ticks.
AvgWait(wt) ==
    IF wt # <<>> THEN [num |-> SeqSum(wt), den |-> Len(wt)]
    ELSE [num |-> 0, den |-> 1]

NoSummary == [final_waiting_list |-> None, patients_seen_count |-> None,
              avg_wait |-> [num |-> None, den |-> 1]]

\* ------------------------------------------------------------------------
\* Initial state: the arguments are parsed, the lists are empty (lines 22-37)
\* ------------------------------------------------------------------------
Init ==
    /\ cfg \in Configs
    /\ draws \in DrawSeqs(cfg)
    /\ rngpos = 0
    /\ pc = "setup"
    /\ now = 0
    /\ queue = {}
    /\ eid = 0
    /\ users = <<>>
    /\ put_queue = <<>>
    /\ procs = <<>>
    /\ all_patients = <<>>
    /\ patients_seen = <<>>
    /\ waiting_times = <<>>
    /\ queue_lengths = <<>>
    /\ time_points = <<>>
    /\ summary = NoSummary
    /\ peak = 0

\* Line 89: until = sim_duration_years * 52, in ticks.
StopTime == cfg.years * WeeksPerYear * TicksPerWeek

\* The stop event ordered after every event of its instant.
StopPriorityLast == NORMAL + 1

\* env.run(until=T) schedules the stop event URGENT, "before all regular
\* timeouts" of time T.
StopPriority == URGENT

\* Lines 85-89 up to the first env.step(): simpy.Resource raises ValueError
\* for capacity <= 0, env.run raises ValueError for until <= env.now.
Setup ==
    /\ pc = "setup"
    /\ IF cfg.clinicians <= 0
       THEN /\ pc' = "error"
            /\ UNCHANGED <<queue, eid>>
       ELSE /\ eid' = IF StopTime <= now THEN 2 ELSE 3
            /\ queue' =
                 {Event(now, URGENT, 0, "init_generator", 0),
                  Event(now, URGENT, 1, "init_monitor", 0)}
                 \cup (IF StopTime <= now THEN {}
                       ELSE {Event(StopTime, StopPriority, 2, "until", 0)})
            /\ pc' = IF StopTime <= now THEN "error" ELSE "running"
    /\ UNCHANGED <<cfg, draws, rngpos, now, users, put_queue, procs,
                   all_patients, patients_seen, waiting_times, queue_lengths,
                   time_points, summary, peak>>

\* Lines 69-74, one pass of the loop of patient_generator at env.now = e.time,
\* after the patients `before` were spawned in this step: draw, spawn,
\* timeout(1).
GeneratorLoop(e, before) ==
    LET n == NumArrivals(Draw(rngpos + 1))
        week == e.time \div TicksPerWeek
        id0 == eid + Len(before)
    IN  /\ rngpos' = rngpos + 1
        /\ procs' = procs \o before \o Spawned(n, "Week", week, e.time)
        /\ queue' = (queue \ {e})
                    \cup InitEvents(Len(before), Len(procs), eid, e.time)
                    \cup InitEvents(n, Len(procs) + Len(before), id0, e.time)
                    \cup {Event(e.time + TicksPerWeek, NORMAL, id0 + n,
                                "timeout_generator", 0)}
        /\ eid' = id0 + n + 1

\* Lines 66-74: the generator starts: the backlog, then the first pass.
patient_generator_start ==
    \E e \in queue :
        /\ Pops(e, "init_generator")
        /\ now' = e.time
        /\ GeneratorLoop(e, Spawned(cfg.backlog, "Initial", 0, 0))
        /\ UNCHANGED <<cfg, draws, pc, users, put_queue, all_patients,
                       patients_seen, waiting_times, queue_lengths,
                       time_points, summary, peak>>

\* Lines 69-74: the generator's weekly timeout fires.
patient_generator_week ==
    \E e \in queue :
        /\ Pops(e, "timeout_generator")
        /\ now' = e.time
        /\ GeneratorLoop(e, <<>>)
        /\ UNCHANGED <<cfg, draws, pc, users, put_queue, all_patients,
                       patients_seen, waiting_times, queue_lengths,
                       time_points, summary, peak>>

\* Line 80 with a fortnight for the week.
MonitorPeriodFortnight == 2 * TicksPerWeek

\* Line 80: yield env.timeout(1), in ticks.
MonitorPeriod == TicksPerWeek

\* Lines 77-80: the monitor starts, or its weekly timeout fires: it samples
\* len(nurses.queue) and env.now and sleeps a week.
monitor_queue ==
    \E e \in queue :
        /\ pc = "running" /\ IsNext(e)
        /\ e.kind \in {"init_monitor", "timeout_monitor"}
        /\ now' = e.time
        /\ queue_lengths' = Append(queue_lengths, Len(put_queue))
        /\ time_points' = Append(time_points, e.time)
        /\ queue' = (queue \ {e})
                    \cup {Event(e.time + MonitorPeriod, NORMAL, eid,
                                "timeout_monitor", 0)}
        /\ eid' = eid + 1
        /\ UNCHANGED <<cfg, draws, rngpos, pc, users, put_queue, procs,
                       all_patients, patients_seen, waiting_times, summary,
                       peak>>

\* Lines 43-54: a patient process starts.  With a rate of 0, line 43 raises
\* ZeroDivisionError and the process fails.  Otherwise the record is
\* appended to all_patients and the request is issued: it joins put_queue,
\* and _trigger_put grants the head of put_queue when a clinician is free.
patient_request ==
    \E e \in queue :
        /\ Pops(e, "init_patient")
        /\ now' = e.time
        /\ IF cfg.ppw = 0
           THEN /\ procs' = [procs EXCEPT ![e.pid].state = "Failed"]
                /\ queue' = (queue \ {e})
                      \cup {Event(e.time, NORMAL, eid, "process_failed", e.pid)}
                /\ eid' = eid + 1
                /\ UNCHANGED <<users, put_queue, all_patients, peak>>
           ELSE LET r == TriggerPut(users, Append(put_queue, e.pid))
                    ps == [procs EXCEPT
                             ![e.pid].state = "AwaitingResource",
                             ![e.pid].rec = Len(all_patients) + 1]
                IN  /\ all_patients' =
                         Append(all_patients,
                                NewRecord(procs[e.pid].name,
                                          procs[e.pid].arrival_time))
                    /\ procs' = ps
                    /\ users' = r.users
                    /\ put_queue' = r.put_queue
                    /\ queue' = (queue \ {e})
                          \cup (IF r.granted = 0 THEN {}
                                ELSE {Event(e.time, NORMAL, eid, "request",
                                            r.granted)})
                    /\ eid' = IF r.granted = 0 THEN eid ELSE eid + 1
                    /\ peak' = Max(peak, InSystem(ps))
        /\ UNCHANGED <<cfg, draws, rngpos, pc, patients_seen, waiting_times,
                       queue_lengths, time_points, summary>>

\* Lines 55-63: the request event is processed and the patient resumes: the
\* wait is recorded, the record is marked seen and copied to patients_seen,
\* and the patient sleeps for the service time.  With a negative rate
\* env.timeout raises ValueError: the with-block releases the clinician and
\* the process fails.
patient_seen ==
    \E e \in queue :
        /\ Pops(e, "request")
        /\ now' = e.time
        /\ LET p == procs[e.pid]
               seen == SeenRecord(all_patients[p.rec], e.time)
           IN  /\ waiting_times' =
                    Append(waiting_times, WaitTime(e.time, p.arrival_time))
               /\ all_patients' = [all_patients EXCEPT ![p.rec] = seen]
               /\ patients_seen' = Append(patients_seen, seen)
               /\ IF ServiceTime < 0
                  THEN /\ procs' = [procs EXCEPT ![e.pid].state = "Failed"]
                       /\ users' = Without(users, e.pid)
                       /\ queue' = (queue \ {e})
                             \cup {Event(e.time, NORMAL, eid, "release", e.pid),
                                   Event(e.time, NORMAL, eid + 1,
                                         "process_failed", e.pid)}
                       /\ eid' = eid + 2
                  ELSE /\ procs' =
                            [procs EXCEPT ![e.pid].state = "AwaitingTimeout"]
                       /\ queue' = (queue \ {e})
                             \cup {Event(e.time + ServiceTime, NORMAL, eid,
                                         "timeout_patient", e.pid)}
                       /\ eid' = eid + 1
                       /\ UNCHANGED users
        /\ UNCHANGED <<cfg, draws, rngpos, pc, put_queue, queue_lengths,
                       time_points, summary, peak>>

\* Line 63 and the end of the with-block: the service timeout fires, the
\* patient releases the clinician (it leaves users at once, the Release
\* event is scheduled) and the process ends.
patient_release ==
    \E e \in queue :
        /\ Pops(e, "timeout_patient")
        /\ now' = e.time
        /\ procs' = [procs EXCEPT ![e.pid].state = "Completed"]
        /\ users' = Without(users, e.pid)
        /\ queue' = (queue \ {e})
                    \cup {Event(e.time, NORMAL, eid, "release", e.pid),
                          Event(e.time, NORMAL, eid + 1, "process_ended",
                                e.pid)}
        /\ eid' = eid + 2
        /\ UNCHANGED <<cfg, draws, rngpos, pc, put_queue, all_patients,
                       patients_seen, waiting_times, queue_lengths,
                       time_points, summary, peak>>

\* The Release event is processed: its callback _trigger_put grants the
\* head of put_queue when a clinician is free.
release_processed ==
    \E e \in queue :
        /\ Pops(e, "release")
        /\ now' = e.time
        /\ LET r == TriggerPut(users, put_queue)
           IN  /\ users' = r.users
               /\ put_queue' = r.put_queue
               /\ queue' = (queue \ {e})
                     \cup (IF r.granted = 0 THEN {}
                           ELSE {Event(e.time, NORMAL, eid, "request",
                                       r.granted)})
               /\ eid' = IF r.granted = 0 THEN eid ELSE eid + 1
        /\ UNCHANGED <<cfg, draws, rngpos, pc, procs, all_patients,
                       patients_seen, waiting_times, queue_lengths,
                       time_points, summary, peak>>

\* The Process event of a patient that returned is processed: it has no
\* callbacks.
process_ended ==
    \E e \in queue :
        /\ Pops(e, "process_ended")
        /\ now' = e.time
        /\ queue' = queue \ {e}
        /\ UNCHANGED <<cfg, draws, rngpos, pc, eid, users, put_queue, procs,
                       all_patients, patients_seen, waiting_times,
                       queue_lengths, time_points, summary, peak>>

\* The Process event of a patient that raised is processed: env.step()
\* re-raises the exception and the script ends with a traceback.
process_failed ==
    \E e \in queue :
        /\ Pops(e, "process_failed")
        /\ now' = e.time
        /\ queue' = queue \ {e}
        /\ pc' = "error"
        /\ UNCHANGED <<cfg, draws, rngpos, eid, users, put_queue, procs,
                       all_patients, patients_seen, waiting_times,
                       queue_lengths, time_points, summary, peak>>

\* Line 89: the stop event is processed: StopSimulation, env.run returns.
run_until ==
    \E e \in queue :
        /\ Pops(e, "until")
        /\ now' = e.time
        /\ queue' = queue \ {e}
        /\ pc' = "done"
        /\ UNCHANGED <<cfg, draws, rngpos, eid, users, put_queue, procs,
                       all_patients, patients_seen, waiting_times,
                       queue_lengths, time_points, summary, peak>>

\* Lines 106-108.
print_summary ==
    /\ pc = "done"
    /\ pc' = "reported"
    /\ summary' = [final_waiting_list |-> Len(put_queue),
                   patients_seen_count |-> Len(patients_seen),
                   avg_wait |-> AvgWait(waiting_times)]
    /\ UNCHANGED <<cfg, draws, rngpos, now, queue, eid, users, put_queue,
                   procs, all_patients, patients_seen, waiting_times,
                   queue_lengths, time_points, peak>>

Next ==
    \/ Setup
    \/ patient_generator_start
    \/ patient_generator_week
    \/ monitor_queue
    \/ patient_request
    \/ patient_seen
    \/ patient_release
    \/ release_processed
    \/ process_ended
    \/ process_failed
    \/ run_until
    \/ print_summary

Spec == Init /\ [][Next]_vars
\* ========================================================================
\* Properties
\* ========================================================================
Min(a, b) == IF a <= b THEN a ELSE b
Week(t) == t \div TicksPerWeek
RunWeeks == cfg.years * WeeksPerYear
Ended == pc \in {"done", "reported"}

\* C1: with clinicians >= 1, the patients holding a clinician (granted and
\* not yet released, i.e. nurses.users) never outnumber the clinicians.
C1_CapacityRespected ==
    cfg.clinicians >= 1 => Len(users) <= cfg.clinicians

C1_Witness ==
    /\ cfg.clinicians = MaxClinicians
    /\ Len(users) = cfg.clinicians
    /\ Len(put_queue) >= 2

\* Request order is the order of the records in all_patients (the record is
\* appended in the step that issues the request).
Requested(i) == procs[i].rec # 0
Granted(i) ==
    Requested(i) /\ \A k \in 1..Len(put_queue) : put_queue[k] # i

\* C2: FIFO: a patient whose request was issued later is never granted
\* before one whose request was issued earlier, and the patients are seen
\* in the order of their requests.
C2_Fifo ==
    /\ \A i, j \in 1..Len(procs) :
          (Requested(i) /\ Requested(j) /\ procs[i].rec < procs[j].rec
              /\ Granted(j)) => Granted(i)
    /\ \A k \in 1..Len(patients_seen) :
          patients_seen[k].name = all_patients[k].name

C2_Witness ==
    /\ Len(put_queue) >= 2
    /\ \E k \in 1..Len(patients_seen) :
          /\ patients_seen[k].wait_time_weeks > 0
          /\ patients_seen[k].name.kind = "Week"

\* C3: every record of patients_seen has a wait >= 0, a service start not
\* before the arrival, and wait = service_start - arrival_time.
C3_WaitNonNegative ==
    \A k \in 1..Len(patients_seen) :
        LET r == patients_seen[k]
        IN  /\ r.wait_time_weeks >= 0
            /\ r.service_start >= r.arrival_time
            /\ r.wait_time_weeks = r.service_start - r.arrival_time
            /\ waiting_times[k] = r.wait_time_weeks

C3_Witness ==
    /\ \E k \in 1..Len(patients_seen) :
          /\ patients_seen[k].name.kind = "Initial"
          /\ patients_seen[k].wait_time_weeks > 0
    /\ \E k \in 1..Len(patients_seen) :
          /\ patients_seen[k].name.kind = "Week"
          /\ patients_seen[k].arrival_time > 0
          /\ patients_seen[k].wait_time_weeks > 0

SerialConfig ==
    /\ cfg.clinicians = 1 /\ cfg.ppw = 1 /\ cfg.patients = 0
    /\ cfg.years >= 1 /\ cfg.backlog >= 0

\* C4: one clinician, one patient a week, no arrivals, a backlog of n: the
\* k-th patient seen waited k-1 weeks, never more than n are seen, all n
\* have been seen once the clock has passed week n-1, and a run of at
\* least n weeks ends with exactly n patients seen.
C4_Serialised ==
    SerialConfig =>
        /\ \A k \in 1..Len(patients_seen) :
              patients_seen[k].wait_time_weeks = (k - 1) * TicksPerWeek
        /\ Len(patients_seen) <= cfg.backlog
        /\ now > (cfg.backlog - 1) * TicksPerWeek
              => Len(patients_seen) = cfg.backlog
        /\ (Ended /\ cfg.backlog <= RunWeeks)
              => Len(patients_seen) = cfg.backlog

\* The spec's n = 10, and n = the length of the run.
C4_Witness ==
    /\ SerialConfig /\ Ended
    /\ cfg.backlog = RunWeeks
    /\ Len(patients_seen) = RunWeeks
    /\ patients_seen[10].wait_time_weeks = 9 * TicksPerWeek

\* C5: once the configuration and the draws are fixed, every step has one
\* outcome: while the clock runs exactly one scheduled event is the next
\* one, because no two scheduled events share an event id.
C5_Deterministic ==
    /\ pc = "running" => Cardinality({e \in queue : IsNext(e)}) = 1
    /\ \A a, b \in queue : a.eid = b.eid => a = b
    /\ \A e \in queue : e.eid < eid

\* Several events are due at the same instant with the same priority.
C5_Witness ==
    /\ pc = "running"
    /\ \E a, b \in queue :
          a # b /\ a.time = b.time /\ a.prio = b.prio /\ IsNext(a)
    /\ Len(patients_seen) >= 2

\* The configuration domain of spec section 6.
ValidConfig ==
    /\ cfg.patients >= 1
    /\ cfg.clinicians >= 1
    /\ cfg.ppw >= 1
    /\ cfg.years >= 1
    /\ cfg.backlog >= 0

\* C6: a configuration outside its domain is rejected before any event is
\* processed: no record is created and no metric is appended.
C6_FailFast ==
    ~ValidConfig =>
        /\ ~Ended
        /\ all_patients = <<>> /\ patients_seen = <<>>
        /\ waiting_times = <<>> /\ queue_lengths = <<>>
        /\ time_points = <<>>

\* C7 as stated: the run processes every event due at or before the stop
\* time, those due exactly at the stop time included.
C7_EventsAtStopProcessed ==
    Ended => \A e \in queue : e.time > RunWeeks * TicksPerWeek

\* C7, amended: the run processes every event due before the stop time and
\* none due at the stop time: the clock ends at the stop time, the events
\* left are those due at or after it (the generator's and the monitor's
\* timeouts of that instant among them), and no sample and no grant
\* carries the stop time.
C7_StopsBeforeStopTime ==
    Ended =>
        /\ now = RunWeeks * TicksPerWeek
        /\ \A e \in queue : e.time >= RunWeeks * TicksPerWeek
        /\ \E e \in queue :
              e.kind = "timeout_generator" /\ e.time = RunWeeks * TicksPerWeek
        /\ \E e \in queue :
              e.kind = "timeout_monitor" /\ e.time = RunWeeks * TicksPerWeek
        /\ \A i \in 1..Len(time_points) :
              time_points[i] < RunWeeks * TicksPerWeek
        /\ Len(time_points) = RunWeeks
        /\ rngpos = RunWeeks
        /\ \A k \in 1..Len(patients_seen) :
              patients_seen[k].service_start < RunWeeks * TicksPerWeek

\* A service completion due exactly at the stop time is left unprocessed.
C7_Witness ==
    /\ Ended
    /\ \E e \in queue :
          e.kind = "timeout_patient" /\ e.time = RunWeeks * TicksPerWeek

\* C8: as long as the patients in the system (request issued, clinician
\* not yet released) have never outnumbered the clinicians, every recorded
\* wait is 0, every sample of the queue is 0 and the queue is empty.
C8_NoWaitUnderCapacity ==
    (cfg.clinicians >= 1 /\ peak <= cfg.clinicians) =>
        /\ \A k \in 1..Len(waiting_times) : waiting_times[k] = 0
        /\ \A k \in 1..Len(queue_lengths) : queue_lengths[k] = 0
        /\ put_queue = <<>>
        /\ summary.final_waiting_list \in {None, 0}

C8_Witness ==
    /\ pc = "reported"
    /\ peak = cfg.clinicians
    /\ Len(waiting_times) >= 3

\* C9 as stated: in a week whose draw rounds or clamps to 0 no request
\* joins the wait queue: no step of that week lengthens it.
C9_ZeroWeekNoGrowth ==
    [][Draw(Week(now') + 1) <= 0 => Len(put_queue') <= Len(put_queue)]_vars

\* C9, amended: in a week whose draw rounds or clamps to 0 no request joins
\* the wait queue, except the requests of the initial backlog in week 0:
\* after week 0, or without a backlog, no step of such a week lengthens the
\* queue.
C9_ZeroWeekNoGrowthAfterBacklog ==
    [][(Draw(Week(now') + 1) <= 0 /\ (Week(now') >= 1 \/ cfg.backlog <= 0))
          => Len(put_queue') <= Len(put_queue)]_vars

\* A zero-arrival week after week 0 in which the queue is not empty and a
\* pending patient is granted.
C9_Witness ==
    /\ pc = "running"
    /\ Week(now) >= 1
    /\ cfg.patients # 0
    /\ Draw(Week(now) + 1) <= 0
    /\ rngpos = Week(now) + 1
    /\ put_queue # <<>>
    /\ \E k \in 1..Len(patients_seen) : patients_seen[k].service_start = now

AllDrawsZero == \A i \in 1..(Len(draws) + 1) : Draw(i) <= 0

\* C10: no backlog and no arrival in any week: patients_seen and
\* waiting_times stay empty, the final queue length is 0 and the mean wait
\* is 0, computed without a division by zero.
C10_EmptySystem ==
    (cfg.backlog = 0 /\ AllDrawsZero) =>
        /\ patients_seen = <<>> /\ waiting_times = <<>>
        /\ all_patients = <<>> /\ put_queue = <<>>
        /\ pc = "reported" =>
              /\ summary.final_waiting_list = 0
              /\ summary.patients_seen_count = 0
              /\ summary.avg_wait.den # 0
              /\ summary.avg_wait.num = 0

C10_Witness ==
    /\ pc = "reported"
    /\ cfg.backlog = 0 /\ AllDrawsZero
    /\ cfg.patients # 0
    /\ Len(queue_lengths) = RunWeeks

\* A configuration inside its domain, a mean of 0 arrivals included.
DomainConfig ==
    /\ cfg.patients >= 0 /\ cfg.clinicians >= 1 /\ cfg.ppw >= 1
    /\ cfg.years >= 1 /\ cfg.backlog >= 0

\* C11 as stated: the sample of tick t is settled: when the clock advances
\* past t, the sample taken at t equals the length of the wait queue.
C11_SamplesSettled ==
    [][(DomainConfig /\ now' > now /\ time_points # <<>>
            /\ time_points[Len(time_points)] = now)
          => queue_lengths[Len(queue_lengths)] = Len(put_queue)]_vars

\* C12 as stated: among the events due at the same time, the one scheduled
\* first (least event id) is processed first, whatever its kind.
C12_SameTickSchedulingOrder ==
    [][\A e \in queue \ queue' :
          \A o \in queue : o.time = e.time => o.eid >= e.eid]_vars

\* C12, amended: the event processed is the earliest one; among the events
\* due at the same time the URGENT ones (process starts) go before the
\* NORMAL ones (grants, releases, timeouts), and within one priority they
\* go in the order in which they were scheduled.  Event ids grow with the
\* order of scheduling and nothing is scheduled in the past.
C12_SameTickPriorityThenOrder ==
    [][/\ \A e \in queue \ queue' :
             /\ now' = e.time
             /\ \A o \in queue :
                   /\ o.time >= e.time
                   /\ o.time = e.time => o.prio >= e.prio
                   /\ (o.time = e.time /\ o.prio = e.prio) => o.eid >= e.eid
       /\ \A n \in queue' \ queue :
             /\ n.eid >= eid /\ n.eid < eid'
             /\ n.time >= now'
             /\ n.prio \in {URGENT, NORMAL}]_vars

\* A process start scheduled later is about to run before a timeout that
\* was scheduled earlier for the same time.
C12_Witness ==
    /\ pc = "running"
    /\ \E a, b \in queue :
          /\ IsNext(a) /\ a.kind = "init_patient"
          /\ b.time = a.time /\ b.eid < a.eid /\ b.kind = "timeout_monitor"

\* C13: zero-delay hand-over: a release and the grant it causes are events
\* of the instant of the release, the grant goes to the head of the wait
\* queue, the patient's service_start is that instant, and the clock never
\* advances while a patient waits and a clinician is free.
C13_ZeroDelayHandover ==
    [][/\ now' > now =>
             ~(put_queue # <<>> /\ Len(users) < cfg.clinicians)
       /\ \A n \in queue' \ queue :
             /\ n.kind \in {"release", "request"} => n.time = now'
             /\ n.kind = "request" =>
                   /\ \E k \in 1..Len(users') : users'[k] = n.pid
                   /\ put_queue # <<>> => n.pid = Head(put_queue)
       /\ \A e \in queue \ queue' :
             (e.kind = "release" /\ put_queue # <<>>
                    /\ Len(users) < cfg.clinicians)
                => /\ put_queue' = Tail(put_queue)
                   /\ \E n \in queue' \ queue :
                         n.kind = "request" /\ n.pid = Head(put_queue)
       /\ \A k \in 1..Len(patients_seen') :
             k > Len(patients_seen) =>
                /\ patients_seen'[k].service_start = now'
                /\ \E e \in queue \ queue' :
                      e.kind = "request" /\ e.time = now']_vars

\* A patient that waited has just been handed a clinician at the instant
\* of a release, and others are still waiting.
C13_Witness ==
    /\ pc = "running"
    /\ put_queue # <<>>
    /\ Len(users) = cfg.clinicians
    /\ \E k \in 1..Len(patients_seen) :
          /\ patients_seen[k].service_start = now
          /\ patients_seen[k].wait_time_weeks > 0
    /\ \E i \in 1..Len(procs) : procs[i].state = "Completed"

Unset(r) ==
    r.status = "waiting" /\ r.service_start = None /\ r.wait_time_weeks = None

\* C14: a record is created 'waiting' with service_start and wait_time
\* unset, changes only once, from 'waiting' to 'seen' with service_start
\* the instant of the step and wait_time set, never afterwards, and the
\* copy appended to patients_seen in that step is never modified.
C14_RecordLifecycle ==
    [][/\ Len(all_patients') >= Len(all_patients)
       /\ \A i \in 1..Len(all_patients') :
             IF i > Len(all_patients)
             THEN Unset(all_patients'[i])
             ELSE \/ all_patients'[i] = all_patients[i]
                  \/ /\ Unset(all_patients[i])
                     /\ all_patients'[i] =
                          [all_patients[i] EXCEPT
                              !.status = "seen",
                              !.service_start = now',
                              !.wait_time_weeks =
                                  now' - all_patients[i].arrival_time]
                     /\ Len(patients_seen') = Len(patients_seen) + 1
                     /\ patients_seen'[Len(patients_seen')] = all_patients'[i]
       /\ Len(patients_seen') >= Len(patients_seen)
       /\ \A k \in 1..Len(patients_seen) :
             patients_seen'[k] = patients_seen[k]
       /\ \A k \in 1..Len(patients_seen') :
             patients_seen'[k].status = "seen"]_vars

\* Records of all three kinds: seen after a wait, seen at once, waiting.
C14_Witness ==
    /\ \E i \in 1..Len(all_patients) :
          all_patients[i].status = "seen"
              /\ all_patients[i].wait_time_weeks > 0
    /\ \E i \in 1..Len(all_patients) : Unset(all_patients[i])
    /\ Len(patients_seen) >= 3
    /\ pc = "running"

\* A patient in service: granted and not yet released.
InService(i) ==
    \/ procs[i].state = "AwaitingTimeout"
    \/ procs[i].state = "AwaitingResource" /\ Granted(i)

InUse(us, i) == \E k \in 1..Len(us) : us[k] = i

\* The in-use count is the number of patients in service, never negative,
\* and nobody holds two clinicians.
InUseIsInService ==
    /\ Len(users) = Cardinality({i \in 1..Len(procs) : InService(i)})
    /\ \A i \in 1..Len(procs) : InService(i) <=> InUse(users, i)
    /\ \A k, l \in 1..Len(users) : users[k] = users[l] => k = l

\* A step of the hold-and-release discipline: a patient leaves users only
\* from service, exactly one service duration 1/rate after its
\* service_start, and terminates in that step; a terminated patient stays
\* terminated and never holds a clinician again.
HoldAndReleaseStep ==
    /\ \A i \in 1..Len(procs) :
          /\ (InUse(users, i) /\ ~InUse(users', i)) =>
                /\ procs[i].state = "AwaitingTimeout"
                /\ all_patients[procs[i].rec].status = "seen"
                /\ now' = all_patients[procs[i].rec].service_start
                             + TicksPerWeek \div cfg.ppw
                /\ procs'[i].state = "Completed"
          /\ procs[i].state = "Completed" =>
                procs'[i].state = "Completed" /\ ~InUse(users', i)
          /\ (procs[i].state # "Completed" /\ procs'[i].state = "Completed")
                => InUse(users, i) /\ ~InUse(users', i)
    /\ InUseIsInService'

\* C15 as stated, for every configuration the script accepts.
C15_HoldAndRelease == [][HoldAndReleaseStep]_vars

\* C15 for the configurations inside their domain.
C15_HoldAndReleaseInDomain == [][DomainConfig => HoldAndReleaseStep]_vars

\* The least integer not below d/2.
LeastIntegerAtLeastHalf(d) ==
    CHOOSE n \in (0 - 4)..4 : 2 * n >= d /\ 2 * (n - 1) < d

SpawnedAs(kind, week) ==
    {i \in 1..Len(procs) :
        procs[i].name.kind = kind /\ procs[i].name.week = week}

\* Once the generator has started: the backlog is exactly
\* waiting_list_start_length patients with arrival_time 0, the generator
\* has run once for each week up to the current one, and week w got
\* exactly max(0, ceil(draw)) patients, each with arrival_time w.
ArrivalsGenerated ==
    rngpos >= 1 =>
        /\ Cardinality(SpawnedAs("Initial", 0)) = cfg.backlog
        /\ \A i \in SpawnedAs("Initial", 0) : procs[i].arrival_time = 0
        /\ pc = "running" => rngpos = Week(now) + 1
        /\ Ended => rngpos = RunWeeks
        /\ \A w \in 0..(rngpos - 1) :
              /\ Cardinality(SpawnedAs("Week", w)) =
                    (IF LeastIntegerAtLeastHalf(Draw(w + 1)) >= 0
                     THEN LeastIntegerAtLeastHalf(Draw(w + 1)) ELSE 0)
              /\ \A i \in SpawnedAs("Week", w) :
                    procs[i].arrival_time = w * TicksPerWeek
        /\ \A i \in 1..Len(procs) :
              procs[i].name.kind = "Week" => procs[i].name.week < rngpos

\* A step spawns only patients whose arrival_time is the time of the step,
\* and never takes a patient back.
SpawnStep ==
    /\ Len(procs') >= Len(procs)
    /\ \A i \in 1..Len(procs') :
          i > Len(procs) => procs'[i].arrival_time = now'
    /\ ArrivalsGenerated'

\* C16 as stated, for every configuration the script accepts.
C16_ArrivalGeneration == [][SpawnStep]_vars

\* C16 for the configurations inside their domain.
C16_ArrivalGenerationInDomain == [][DomainConfig => SpawnStep]_vars

Parked(i) == procs[i].state \in {"AwaitingResource", "AwaitingTimeout"}

\* C17 as stated: when the run is halted, the record of every patient
\* still parked (awaiting the resource or its service timeout) has status
\* 'waiting'.
C17_ParkedAreWaiting ==
    Ended =>
        \A i \in 1..Len(procs) :
            Parked(i) => all_patients[procs[i].rec].status = "waiting"

\* C17, amended: when the run is halted every parked patient is left as it
\* is: one awaiting the resource is still in the wait queue with a record
\* of status 'waiting', one awaiting its service timeout still holds its
\* clinician, its timeout is still scheduled (at or after the stop time)
\* and its record has status 'seen'.
C17_ParkedLeftAsTheyAre ==
    Ended =>
        \A i \in 1..Len(procs) :
            /\ procs[i].state = "AwaitingResource" =>
                  /\ all_patients[procs[i].rec].status = "waiting"
                  /\ \E k \in 1..Len(put_queue) : put_queue[k] = i
            /\ procs[i].state = "AwaitingTimeout" =>
                  /\ all_patients[procs[i].rec].status = "seen"
                  /\ \E k \in 1..Len(users) : users[k] = i
                  /\ \E e \in queue :
                        /\ e.kind = "timeout_patient" /\ e.pid = i
                        /\ e.time >= RunWeeks * TicksPerWeek
            /\ all_patients[procs[i].rec].status = "waiting"
                  => procs[i].state = "AwaitingResource"

\* The run was halted with a patient in service and patients waiting.
C17_Witness ==
    /\ pc = "reported"
    /\ put_queue # <<>>
    /\ \E i \in 1..Len(procs) : procs[i].state = "AwaitingTimeout"
    /\ \E i \in 1..Len(procs) : procs[i].state = "AwaitingResource"

\* C18: the monitor takes one sample at each whole week: the sample times
\* are 0, 1, 2, ... weeks in order, one for every week the clock has
\* reached (the sample of the current week is taken or due now),
\* queue_lengths and time_points have the same length, and every sample
\* lies between 0 and the number of patients spawned by its time.
C18_WeeklySamples ==
    /\ Len(queue_lengths) = Len(time_points)
    /\ \A i \in 1..Len(time_points) :
          /\ time_points[i] = (i - 1) * TicksPerWeek
          /\ queue_lengths[i] >= 0
          /\ queue_lengths[i] <=
                Cardinality({p \in 1..Len(procs) :
                                procs[p].arrival_time <= time_points[i]})
    /\ pc = "running" =>
          \/ Len(time_points) = Week(now) + 1
          \/ /\ Len(time_points) = Week(now)
             /\ \E e \in queue :
                   /\ e.kind \in {"init_monitor", "timeout_monitor"}
                   /\ e.time = now
    /\ Ended => Len(time_points) = RunWeeks

C18_Witness ==
    /\ pc = "reported"
    /\ Len(time_points) = RunWeeks
    /\ \E i \in 1..Len(queue_lengths) : queue_lengths[i] >= 2
    /\ queue_lengths[1] = 0
    /\ cfg.patients # 0

\* The process that owns record r, and where the record's patient is.
OwnerOf(r) == CHOOSE i \in 1..Len(procs) : procs[i].rec = r
InQueue(pq, i) == \E k \in 1..Len(pq) : pq[k] = i
HasLeft(i) == procs[i].state \in {"Completed", "Failed"}
CountStatus(st) ==
    Cardinality({r \in 1..Len(all_patients) : all_patients[r].status = st})

\* C19: patient conservation: every record of all_patients has one owner,
\* which is in exactly one of the wait queue, the users of the resource, or
\* the processes that have ended; so len(all_patients) = queue length +
\* in-service count + ended count, len(waiting_times) = len(patients_seen)
\* = the number of records with status 'seen', and at the end of the run
\* the number of records with status 'waiting' is the reported final
\* waiting list.
C19_Conservation ==
    /\ \A r \in 1..Len(all_patients) :
          /\ Cardinality({i \in 1..Len(procs) : procs[i].rec = r}) = 1
          /\ LET i == OwnerOf(r)
             IN  /\ InQueue(put_queue, i) \/ InUse(users, i) \/ HasLeft(i)
                 /\ ~(InQueue(put_queue, i) /\ InUse(users, i))
                 /\ ~(InQueue(put_queue, i) /\ HasLeft(i))
                 /\ ~(InUse(users, i) /\ HasLeft(i))
    /\ \A k, l \in 1..Len(put_queue) : put_queue[k] = put_queue[l] => k = l
    /\ \A k, l \in 1..Len(users) : users[k] = users[l] => k = l
    /\ \A k \in 1..Len(put_queue) : procs[put_queue[k]].rec # 0
    /\ \A k \in 1..Len(users) : procs[users[k]].rec # 0
    /\ Len(all_patients) =
          Len(put_queue) + Len(users)
          + Cardinality({i \in 1..Len(procs) :
                            procs[i].rec # 0 /\ HasLeft(i)})
    /\ Len(waiting_times) = Len(patients_seen)
    /\ Len(patients_seen) = CountStatus("seen")
    /\ Ended => CountStatus("waiting") = Len(put_queue)
    /\ pc = "reported" => summary.final_waiting_list = CountStatus("waiting")

C19_Witness ==
    /\ pc = "reported"
    /\ summary.final_waiting_list >= 2
    /\ users # <<>>
    /\ \E i \in 1..Len(procs) : procs[i].state = "Completed"
    /\ Len(all_patients) = Len(procs)

\* The run is over: halted by the stop event or aborted by an exception.
RunOver == pc \in {"done", "reported", "error"}

\* Progress of the requests: a queued request, the r-th issued, is granted
\* within ((r-1) \div clinicians) service durations of its arrival (FIFO,
\* fixed service time); requests wait only while every clinician is busy
\* or a release is being handed over; every holder has its grant or the
\* end of its service pending; and when the run is over every patient
\* whose service ends strictly before the stop time has completed.
NoStarvation ==
    /\ \A k \in 1..Len(put_queue) :
          LET i == put_queue[k]
          IN  now <= procs[i].arrival_time
                     + ((procs[i].rec - 1) \div cfg.clinicians) * ServiceTime
    /\ put_queue # <<>> =>
          \/ Len(users) = cfg.clinicians
          \/ \E e \in queue : e.kind = "release" /\ e.time = now
    /\ \A k \in 1..Len(users) :
          LET i == users[k]
          IN  \/ \E e \in queue :
                    e.kind = "request" /\ e.pid = i /\ e.time = now
              \/ \E e \in queue :
                    /\ e.kind = "timeout_patient" /\ e.pid = i
                    /\ e.time = all_patients[procs[i].rec].service_start
                                + ServiceTime
                    /\ e.time >= now
    /\ \A r \in 1..Len(all_patients) :
          all_patients[r].status = "seen" =>
              all_patients[r].wait_time_weeks
                  <= ((r - 1) \div cfg.clinicians) * ServiceTime
    /\ RunOver =>
          \A r \in 1..Len(all_patients) :
              (/\ all_patients[r].status = "seen"
               /\ all_patients[r].service_start + ServiceTime < StopTime)
                  => procs[OwnerOf(r)].state = "Completed"

\* C20 as stated, for every configuration the script accepts: no request
\* starves (every request is granted within a bounded delay and every
\* holder releases), and when the run ends every patient whose grant time
\* plus service duration is strictly before the stop time has completed.
C20_NoStarvation == NoStarvation

\* C20 for the configurations inside their domain.
C20_NoStarvationInDomain == DomainConfig => NoStarvation

C20_InDomainWitness ==
    /\ DomainConfig /\ pc = "reported"
    /\ put_queue # <<>>
    /\ \E r \in 1..Len(all_patients) :
          /\ all_patients[r].status = "seen"
          /\ all_patients[r].wait_time_weeks > 0
          /\ all_patients[r].service_start + ServiceTime = StopTime
          /\ procs[OwnerOf(r)].state = "AwaitingTimeout"
    /\ \E r \in 1..Len(all_patients) :
          /\ all_patients[r].wait_time_weeks > 0
          /\ procs[OwnerOf(r)].state = "Completed"
====
